---- MODULE Spec2Model ----
(***************************************************************************)
(* A model of bench/benchmark-blocking-sizes.cpp: the size-triple codec,   *)
(* benchmark_t::run's matrix pool and iteration doubling,                  *)
(* measure_clock_speed, measure_default_sizes_action_t::run, the           *)
(* clock-speed-aware scheduler (try_run_some_benchmarks / run_benchmarks)  *)
(* and the sort + keep-best reduction at the end of run_benchmarks.        *)
(*                                                                         *)
(* Indices are 0-based as in the source; benchmarks[i + 1] is the source's *)
(* benchmarks[i].  Floating-point quantities are modelled by integers and  *)
(* the tolerance tests by exact rational comparisons; float rounding is    *)
(* not modelled.                                                           *)
(***************************************************************************)
EXTENDS Integers, Sequences, FiniteSets, TLC

VARIABLES
  pc,                      \* position in run_benchmarks / try_run_some_benchmarks
  benchmarks,              \* vector<benchmark_t> benchmarks
  first_benchmark_to_run,  \* the checkpoint (run_benchmarks local, passed by reference)
  benchmark_index,         \* try_run_some_benchmarks local
  max_clock_speed,         \* best clock speed seen (run_benchmarks local, by reference)
  current_clock_speed,     \* try_run_some_benchmarks local; 0 when out of scope
  seconds_to_sleep,        \* seconds_to_sleep_if_lower_clock_speed; 0 when out of scope
  baseline_probes,         \* loop counter i of the 4 initial probes
  real_time,               \* timer.getRealTime(), saturated (see Later)
  size_range,              \* <<minsize, maxsize>> of the generated list, <<0, 0>> if none
  kernel_gflops,           \* per trial, the throughputs its run() may measure (environment)
  trial_seconds,           \* the real times one trial may take (environment)
  since_measurement,       \* real time elapsed since time_last_clock_speed_measurement
  \* history variables, read by the properties only
  handed,                  \* the list as handed to the reduction (<<>> before)
  pending,                 \* indices run before a restart from 0 or a recovery made
                           \* their run void (all, resp. checkpoint..index-1), not re-run yet
  resume_at,               \* checkpoint of the last recovery, until the next trial runs
  slept,                   \* cumulative sleep of the current backoff episode
  restarted,               \* some restart from 0 has happened
  fresh,                   \* indices run since the last reading of a clock check
  verified,                \* indices whose latest run was followed by a clock check
                           \* whose first reading was within the tolerances
  since_probe,             \* real time elapsed since the last call of
                           \* measure_clock_speed, saturated like real_time
  baseline_reading,        \* what the latest of the 4 initial calls of
                           \* measure_clock_speed returned; 0 before the first and
                           \* once try_run_some_benchmarks has been called
  stable,                  \* every reading since the 4 initial ones was within the
                           \* tolerances of the best clock speed of its time
  \* the size-triple codec applied to two triples
  sizes,                   \* the two size triples (k, m, n)
  keys,                    \* their compact forms, once encoded
  decoded,                 \* the triples decoded from the compact forms
  \* benchmark_t::run's main benchmark loop
  cost,                    \* CPU time of one product (environment)
  min_accurate_time,       \* benchmark_t::min_accurate_time
  iters_at_a_time,         \* int iters_at_a_time
  time_per_iter,           \* float time_per_iter
  \* measure_clock_speed
  all_gflops,              \* vector<float> all_gflops
  clock_speed,             \* the value returned
  \* benchmark_t::run's matrix pool
  productsizes,            \* size_triple_t productsizes (k, m, n)
  min_working_set_size,    \* benchmark_t::min_working_set_size
  matrix_pool_size         \* const size_t matrix_pool_size, 0 before it is computed

Environment == <<size_range, kernel_gflops, trial_seconds>>

History ==
  <<handed, pending, resume_at, slept, restarted, fresh, verified, since_probe,
    baseline_reading, stable>>

CodecVars == <<sizes, keys, decoded>>

TimerVars == <<cost, min_accurate_time, iters_at_a_time, time_per_iter>>

ProbeVars == <<all_gflops, clock_speed>>

PoolVars == <<productsizes, min_working_set_size, matrix_pool_size>>

vars == <<pc, benchmarks, first_benchmark_to_run, benchmark_index, max_clock_speed,
          current_clock_speed, seconds_to_sleep, baseline_probes, real_time,
          since_measurement, Environment, History, CodecVars, TimerVars, ProbeVars, PoolVars>>

(***************************************************************************)
(* Bounds of the model.                                                    *)
(***************************************************************************)
MaxBenchmarks == 3
\* longest list SpecReduce reduces
MaxReduced == 3
\* largest CPU time of one product in SpecTimer, in milliseconds
MaxCost == 250
\* throughputs a trial's run() may store (the kernel's speed is the environment's)
KernelGflops == {1, 2}

(***************************************************************************)
(* Program constants.                                                      *)
(***************************************************************************)
measurement_repetitions == 3
\* "the largest representable size is 2^15"
MaxLog2 == 15
ClockRuns == 8
BaselineRuns == 4
ClockScale == 123456
ToleranceScale == 100
tolerance_higher_clock_speed == 101
tolerance_lower_clock_speed == 98
ClockCheckPeriod == 60
GiveUpSeconds == 300
\* g_min_accurate_time (1e-2f) and the 0.1f of measure_clock_speed, in milliseconds
g_min_accurate_time == 10
clock_min_accurate_time == 100

Pow2(e) == 2 ^ e

Max(a, b) == IF a > b THEN a ELSE b

Min(a, b) == IF a < b THEN a ELSE b

(***************************************************************************)
(* SizeKey codec.                                                          *)
(***************************************************************************)
RECURSIVE log2_loop(_, _)
log2_loop(x, l) == IF x \div 2 # 0 THEN log2_loop(x \div 2, l + 1) ELSE l

\* uint8_t log2_pot(size_t x): counts the right shifts until x is 0, as uint8_t
log2_pot(x) == log2_loop(x, 0) % 256

RECURSIVE BitOr(_, _)
BitOr(a, b) ==
  IF a = 0 THEN b
  ELSE IF b = 0 THEN a
  ELSE Max(a % 2, b % 2) + 2 * BitOr(a \div 2, b \div 2)

RECURSIVE BitAnd(_, _)
BitAnd(a, b) ==
  IF a = 0 \/ b = 0 THEN 0
  ELSE (a % 2) * (b % 2) + 2 * BitAnd(a \div 2, b \div 2)

ShiftLeft(x, s) == x * Pow2(s)

ShiftRight(x, s) == x \div Pow2(s)

compact_size_triple_overlap(k, m, n) ==
  BitOr(BitOr(ShiftLeft(log2_pot(k), 8), ShiftLeft(log2_pot(m), 3)), log2_pot(n)) % 65536

compact_size_triple_swapped(k, m, n) ==
  BitOr(BitOr(ShiftLeft(log2_pot(n), 8), ShiftLeft(log2_pot(m), 4)), log2_pot(k)) % 65536

\* uint16_t compact_size_triple(size_t k, size_t m, size_t n):
\* (log2_pot(k) << 8) | (log2_pot(m) << 4) | log2_pot(n), as uint16_t
compact_size_triple(k, m, n) ==
  BitOr(BitOr(ShiftLeft(log2_pot(k), 8), ShiftLeft(log2_pot(m), 4)), log2_pot(n)) % 65536

\* size_triple_t::size_triple_t(uint16_t compact): 0xf00 is 3840, 0x0f0 is 240
size_triple_t(compact) ==
  <<ShiftLeft(1, ShiftRight(BitAnd(compact, 3840), 8)),
    ShiftLeft(1, ShiftRight(BitAnd(compact, 240), 4)),
    ShiftLeft(1, ShiftRight(BitAnd(compact, 15), 0))>>

(***************************************************************************)
(* benchmark_t and its ordering.                                           *)
(***************************************************************************)
\* benchmark_t(pk, pm, pn, bk, bm, bn)
benchmark_t(p, b) ==
  [compact_product_size |-> compact_size_triple(p[1], p[2], p[3]),
   compact_block_size |-> compact_size_triple(b[1], b[2], b[3]),
   use_default_block_size |-> FALSE,
   gflops |-> 0]

\* benchmark_t(pk, pm, pn)
benchmark_default_t(p) ==
  [compact_product_size |-> compact_size_triple(p[1], p[2], p[3]),
   compact_block_size |-> 0,
   use_default_block_size |-> TRUE,
   gflops |-> 0]

BenchmarkLessAscending(b1, b2) ==
  \/ b1.compact_product_size < b2.compact_product_size
  \/ /\ b1.compact_product_size = b2.compact_product_size
     /\ \/ b1.compact_block_size < b2.compact_block_size
        \/ /\ b1.compact_block_size = b2.compact_block_size
           /\ b1.gflops < b2.gflops

\* bool operator<(const benchmark_t& b1, const benchmark_t& b2)
BenchmarkLess(b1, b2) ==
  \/ b1.compact_product_size < b2.compact_product_size
  \/ /\ b1.compact_product_size = b2.compact_product_size
     /\ \/ b1.compact_block_size < b2.compact_block_size
        \/ /\ b1.compact_block_size = b2.compact_block_size
           /\ b1.gflops > b2.gflops

\* sort(benchmarks.begin(), benchmarks.end()) with operator<: an insertion sort;
\* elements equivalent under operator< are equal records here, so the sorted
\* sequence is the one std::sort produces.
RECURSIVE InsertBenchmark(_, _)
InsertBenchmark(b, s) ==
  IF s = <<>> THEN <<b>>
  ELSE IF BenchmarkLess(b, Head(s)) THEN <<b>> \o s
  ELSE <<Head(s)>> \o InsertBenchmark(b, Tail(s))

RECURSIVE SortBenchmarks(_)
SortBenchmarks(s) ==
  IF s = <<>> THEN <<>> ELSE InsertBenchmark(Head(s), SortBenchmarks(Tail(s)))

Back(s) == s[Len(s)]

\* the test guarding best_benchmarks.push_back(*it)
StartsNewConfiguration(best, b) ==
  \/ best = <<>>
  \/ Back(best).compact_product_size # b.compact_product_size
  \/ Back(best).compact_block_size # b.compact_block_size

\* the loop collecting best_benchmarks from the sorted list
RECURSIVE CollectBest(_, _)
CollectBest(best, rest) ==
  IF rest = <<>> THEN best
  ELSE CollectBest(IF StartsNewConfiguration(best, Head(rest))
                     THEN Append(best, Head(rest)) ELSE best,
                   Tail(rest))

\* the tail of run_benchmarks: sort, collect, assign
ReduceBenchmarks(s) == CollectBest(<<>>, SortBenchmarks(s))

(***************************************************************************)
(* Clock Probe.                                                            *)
(***************************************************************************)
RECURSIVE InsertFloat(_, _)
InsertFloat(x, s) ==
  IF s = <<>> THEN <<x>>
  ELSE IF x < Head(s) THEN <<x>> \o s
  ELSE <<Head(s)>> \o InsertFloat(x, Tail(s))

\* sort(all_gflops.begin(), all_gflops.end()), by insertion into the sorted tail
\* (bound as a value, so that evaluating ENABLED computes it once)
RECURSIVE SortFloats(_)
SortFloats(s) ==
  IF s = <<>> THEN <<>>
  ELSE CHOOSE sorted \in {InsertFloat(Head(s), tail) : tail \in {SortFloats(Tail(s))}} : TRUE

StableEstimateShifted(sorted) == sorted[2] + sorted[3] + sorted[4] + sorted[5]

\* all_gflops[2] + all_gflops[3] + all_gflops[4] + all_gflops[5] of the sorted vector
StableEstimate(sorted) == sorted[3] + sorted[4] + sorted[5] + sorted[6]

\* the value measure_clock_speed returns for the 8 throughputs it measured,
\* in units of 1/1000 (123.456f is ClockScale / 1000)
measure_clock_speed(measurements) == StableEstimate(SortFloats(measurements)) * ClockScale

\* the 8 throughputs one call of measure_clock_speed may measure in the scheduler,
\* in the order measured: middle sums 146, 149, 150 and 152, so that for every best
\* speed but the lowest there is a reading within the tolerances and one below, and
\* for every one but the highest a reading above
ClockSamples ==
  {<<37, 36, 90, 36, 37, 2, 95, 1>>,
   <<37, 38, 37, 37, 7, 40, 39, 30>>,
   <<38, 38, 37, 37, 36, 36, 39, 39>>,
   <<38, 38, 38, 38, 38, 38, 38, 38>>}

\* current_clock_speed > tolerance_higher_clock_speed * max_clock_speed
ClockIsHigher(current, best) ==
  ToleranceScale * current > tolerance_higher_clock_speed * best

\* current_clock_speed < tolerance_lower_clock_speed * max_clock_speed
ClockIsLower(current, best) ==
  ToleranceScale * current < tolerance_lower_clock_speed * best

\* neither: the reading a clock check passes on
InTolerance(current, best) ==
  ~ClockIsHigher(current, best) /\ ~ClockIsLower(current, best)

(***************************************************************************)
(* The scheduler: run_benchmarks and try_run_some_benchmarks.              *)
(***************************************************************************)
\* Real time matters only through  time_now > time_last + 60.0f : times are
\* kept up to ClockCheckPeriod + 1, which stands for every later time.
Later(t, dt) == Min(t + dt, ClockCheckPeriod + 1)

\* real time that may pass from one reading of the timer to the next
Elapsed == {0, ClockCheckPeriod, ClockCheckPeriod + 1}

\* real time one call of measure_clock_speed may take; what it adds to the time
\* since the last clock check is counted with the trial that follows it
ProbeElapsed == {0, ClockCheckPeriod + 1}

Size == Len(benchmarks)

Indices == 0..(Size - 1)

Reverse(s) == [i \in 1..Len(s) |-> s[Len(s) + 1 - i]]

Rotate(s, r) == [i \in 1..Len(s) |-> s[((i - 1 + r) % Len(s)) + 1]]

\* the orders random_shuffle may leave the list in: the rotations of the list and
\* of its reverse (every permutation of a list of at most 3)
Shuffles(s) ==
  IF s = <<>> THEN {s}
  ELSE {Rotate(s, r) : r \in 0..(Len(s) - 1)}
         \cup {Rotate(Reverse(s), r) : r \in 0..(Len(s) - 1)}

\* the state run_benchmarks starts in, but for the list
RunStart(range, gflops, seconds) ==
  /\ size_range = range
  /\ kernel_gflops = gflops
  /\ trial_seconds = seconds
  /\ first_benchmark_to_run = 0
  /\ benchmark_index = 0
  /\ max_clock_speed = 0
  /\ current_clock_speed = 0
  /\ seconds_to_sleep = 0
  /\ baseline_probes = 0
  /\ real_time \in {0, ClockCheckPeriod + 1}
  /\ since_measurement = 0
  /\ handed = <<>>
  /\ pending = {}
  /\ resume_at = -1
  /\ slept = 0
  /\ restarted = FALSE
  /\ fresh = {}
  /\ verified = {}
  /\ since_probe = 0
  /\ baseline_reading = 0
  /\ stable = TRUE

\* the state run_benchmarks(list) starts in
InitRun(list, range, gflops, seconds) ==
  /\ pc = "shuffle"
  /\ benchmarks = list
  /\ RunStart(range, gflops, seconds)

\* random_shuffle(benchmarks.begin(), benchmarks.end())
Shuffle ==
  /\ pc = "shuffle"
  /\ benchmarks' \in Shuffles(benchmarks)
  /\ pc' = "baseline"
  /\ UNCHANGED <<first_benchmark_to_run, benchmark_index, max_clock_speed,
                 current_clock_speed, seconds_to_sleep, baseline_probes, real_time,
                 Environment, since_measurement, History,
                 CodecVars, TimerVars, ProbeVars, PoolVars>>

\* one round of  max_clock_speed = max(max_clock_speed, measure_clock_speed()) ;
\* the last round falls through to  first_benchmark_to_run = 0  and the while loop
MeasureBaseline ==
  /\ pc = "baseline"
  /\ \E sample \in ClockSamples, dt \in ProbeElapsed :
       /\ max_clock_speed' = Max(max_clock_speed, measure_clock_speed(sample))
       /\ baseline_reading' = measure_clock_speed(sample)
       /\ real_time' = Later(real_time, dt)
  /\ baseline_probes' = baseline_probes + 1
  /\ pc' = IF baseline_probes + 1 < BaselineRuns THEN "baseline" ELSE "loop"
  /\ first_benchmark_to_run' = 0
  /\ since_probe' = 0
  /\ UNCHANGED <<benchmarks, benchmark_index, current_clock_speed, seconds_to_sleep,
                 Environment, since_measurement, handed, pending, resume_at, slept,
                 restarted, fresh, verified, stable,
                 CodecVars, TimerVars, ProbeVars, PoolVars>>

StartIndexZero(checkpoint) == 0

\* size_t benchmark_index = first_benchmark_to_run
StartIndex(checkpoint) == checkpoint

\* while (first_benchmark_to_run < benchmarks.size()) try_run_some_benchmarks(...):
\* the call, up to the top of its while (true) loop (time_last_... = 0)
EnterTryRun ==
  /\ pc = "loop"
  /\ first_benchmark_to_run < Size
  /\ IF first_benchmark_to_run = Size
       THEN pc' = "loop" /\ UNCHANGED <<benchmark_index, since_measurement,
                 CodecVars, TimerVars, ProbeVars, PoolVars>>
       ELSE /\ pc' = "iter"
            /\ benchmark_index' = StartIndex(first_benchmark_to_run)
            /\ since_measurement' = real_time
  /\ baseline_reading' = 0
  /\ UNCHANGED <<benchmarks, first_benchmark_to_run, max_clock_speed, current_clock_speed,
                 seconds_to_sleep, baseline_probes, real_time, Environment, handed,
                 pending, resume_at, slept, restarted, fresh, verified, since_probe,
                 stable,
                 CodecVars, TimerVars, ProbeVars, PoolVars>>

AtEndEarly(index) == index + 1 >= Size

\* benchmark_index == benchmarks.size()
AtEnd(index) == index = Size

ClockCheckDueTimed == since_measurement > ClockCheckPeriod

ClockCheckAtEnd == AtEnd(benchmark_index)

\* the test deciding whether this iteration checks the clock speed
ClockCheckDue ==
  AtEnd(benchmark_index) \/ since_measurement > ClockCheckPeriod

\* time_last_clock_speed_measurement = time_now; current = measure_clock_speed()
MeasureClock ==
  /\ pc = "iter"
  /\ ClockCheckDue
  /\ \E sample \in ClockSamples, dt \in ProbeElapsed :
       /\ current_clock_speed' = measure_clock_speed(sample)
       /\ real_time' = Later(real_time, dt)
  /\ stable' = (stable /\ InTolerance(current_clock_speed', max_clock_speed))
  /\ since_measurement' = 0
  /\ since_probe' = 0
  /\ pc' = "calibrate"
  /\ UNCHANGED <<benchmarks, first_benchmark_to_run, benchmark_index, max_clock_speed,
                 seconds_to_sleep, baseline_probes, Environment, handed, pending,
                 resume_at, slept, restarted, fresh, verified, baseline_reading,
                 CodecVars, TimerVars, ProbeVars, PoolVars>>

RestartFromCheckpoint(checkpoint) == checkpoint

\* the value first_benchmark_to_run gets when the clock speed increased
RestartFrom(checkpoint) == 0

KeptMaxClockSpeed(best, current) == best

\* max_clock_speed = current_clock_speed
NewMaxClockSpeed(best, current) == current

\* the branch  current_clock_speed > tolerance_higher_clock_speed * max_clock_speed
RestartHigher ==
  /\ pc = "calibrate"
  /\ ClockIsHigher(current_clock_speed, max_clock_speed)
  /\ max_clock_speed' = NewMaxClockSpeed(max_clock_speed, current_clock_speed)
  /\ first_benchmark_to_run' = RestartFrom(first_benchmark_to_run)
  /\ pc' = "loop"
  /\ current_clock_speed' = 0
  /\ pending' = Indices
  /\ restarted' = TRUE
  /\ fresh' = {}
  /\ UNCHANGED <<benchmarks, benchmark_index, seconds_to_sleep, baseline_probes,
                 real_time, Environment, since_measurement, handed, resume_at, slept,
                 verified, since_probe, baseline_reading, stable,
                 CodecVars, TimerVars, ProbeVars, PoolVars>>

\* the branch  current_clock_speed < tolerance_lower_clock_speed * max_clock_speed
EnterBackoff ==
  /\ pc = "calibrate"
  /\ ~ClockIsHigher(current_clock_speed, max_clock_speed)
  /\ ClockIsLower(current_clock_speed, max_clock_speed)
  /\ seconds_to_sleep' = 1
  /\ pc' = "backoff"
  /\ slept' = 0
  /\ fresh' = {}
  /\ UNCHANGED <<benchmarks, first_benchmark_to_run, benchmark_index, max_clock_speed,
                 current_clock_speed, baseline_probes, real_time, Environment,
                 since_measurement, handed, pending, resume_at, restarted, verified,
                 since_probe, baseline_reading, stable,
                 CodecVars, TimerVars, ProbeVars, PoolVars>>

AdvancePast(checkpoint, index) == index + 1

AdvanceNot(checkpoint, index) == checkpoint

\* first_benchmark_to_run = benchmark_index
AdvanceTo(checkpoint, index) == index

\* neither branch taken:  first_benchmark_to_run = benchmark_index
PassClockCheck ==
  /\ pc = "calibrate"
  /\ ~ClockIsHigher(current_clock_speed, max_clock_speed)
  /\ ~ClockIsLower(current_clock_speed, max_clock_speed)
  /\ first_benchmark_to_run' = AdvanceTo(first_benchmark_to_run, benchmark_index)
  /\ pc' = "run"
  /\ current_clock_speed' = 0
  /\ verified' = verified \cup fresh
  /\ fresh' = {}
  /\ UNCHANGED <<benchmarks, benchmark_index, max_clock_speed, seconds_to_sleep,
                 baseline_probes, real_time, Environment, since_measurement,
                 handed, pending, resume_at, slept, restarted, since_probe,
                 baseline_reading, stable,
                 CodecVars, TimerVars, ProbeVars, PoolVars>>

GivesUpEarly(seconds) == seconds + seconds > GiveUpSeconds

\* seconds_to_sleep_if_lower_clock_speed > 300
GivesUp(seconds) == seconds > GiveUpSeconds

NextSleepLinear(seconds) == seconds + 1

\* seconds_to_sleep_if_lower_clock_speed *= 2
NextSleep(seconds) == seconds * 2

\* one round of the inner while loop: sleep, measure again, double the sleep
\* (time_last_clock_speed_measurement is not read again before the function returns)
Sleep ==
  /\ pc = "backoff"
  /\ ClockIsLower(current_clock_speed, max_clock_speed)
  /\ ~GivesUp(seconds_to_sleep)
  /\ \E sample \in ClockSamples :
       /\ current_clock_speed' = measure_clock_speed(sample)
       /\ real_time' = Later(real_time, seconds_to_sleep)
  /\ stable' = (stable /\ InTolerance(current_clock_speed', max_clock_speed))
  /\ seconds_to_sleep' = NextSleep(seconds_to_sleep)
  /\ slept' = slept + seconds_to_sleep
  /\ since_probe' = 0
  /\ UNCHANGED <<pc, benchmarks, first_benchmark_to_run, benchmark_index, max_clock_speed,
                 baseline_probes, Environment, since_measurement, handed, pending,
                 resume_at, restarted, fresh, verified, baseline_reading,
                 CodecVars, TimerVars, ProbeVars, PoolVars>>

\* "Sleeping longer probably won't make a difference. Giving up." exit(1)
GiveUp ==
  /\ pc = "backoff"
  /\ ClockIsLower(current_clock_speed, max_clock_speed)
  /\ GivesUp(seconds_to_sleep)
  /\ pc' = "fatal"
  /\ UNCHANGED <<benchmarks, first_benchmark_to_run, benchmark_index, max_clock_speed,
                 current_clock_speed, seconds_to_sleep, baseline_probes, real_time,
                 Environment, since_measurement, History,
                 CodecVars, TimerVars, ProbeVars, PoolVars>>

ResumeFromIndex(checkpoint, index) == index

ResumeFromZero(checkpoint, index) == 0

\* first_benchmark_to_run after  if (rerun_last_tests) return : not assigned
ResumeFrom(checkpoint, index) == checkpoint

\* rerun_last_tests: set by every round of the inner loop
rerun_last_tests == seconds_to_sleep > 1

\* the inner loop ends with the clock speed no longer low:  if (rerun_last_tests) return
Recover ==
  /\ pc = "backoff"
  /\ ~ClockIsLower(current_clock_speed, max_clock_speed)
  /\ rerun_last_tests
  /\ first_benchmark_to_run' = ResumeFrom(first_benchmark_to_run, benchmark_index)
  /\ pc' = "loop"
  /\ current_clock_speed' = 0
  /\ seconds_to_sleep' = 0
  /\ pending' = pending \cup (first_benchmark_to_run..(benchmark_index - 1))
  /\ resume_at' = first_benchmark_to_run
  /\ slept' = 0
  /\ UNCHANGED <<benchmarks, benchmark_index, max_clock_speed,
                 baseline_probes, real_time, Environment, since_measurement, handed,
                 restarted, fresh, verified, since_probe, baseline_reading, stable,
                 CodecVars, TimerVars, ProbeVars, PoolVars>>

\* the point after the clock check: reached from it, or directly when none is due
AfterClockCheck == pc = "run" \/ (pc = "iter" /\ ~ClockCheckDue)

\* "We're done!":  first_benchmark_to_run = benchmarks.size(); return
Finish ==
  /\ AfterClockCheck
  /\ AtEnd(benchmark_index)
  /\ first_benchmark_to_run' = Size
  /\ pc' = "loop"
  /\ UNCHANGED <<benchmarks, benchmark_index, max_clock_speed, current_clock_speed,
                 seconds_to_sleep, baseline_probes, real_time, Environment,
                 since_measurement, History,
                 CodecVars, TimerVars, ProbeVars, PoolVars>>

NextIndexSkipping(index) == index + 2

NextIndexStuck(index) == index

\* benchmark_index++
NextIndex(index) == index + 1

\* benchmarks[benchmark_index].run(); benchmark_index++
RunTrial ==
  /\ AfterClockCheck
  /\ ~AtEnd(benchmark_index)
  /\ benchmark_index < Size
  /\ \E g \in kernel_gflops[benchmark_index], dt \in trial_seconds :
       /\ benchmarks' = [benchmarks EXCEPT ![benchmark_index + 1].gflops = g]
       /\ real_time' = Later(real_time, dt)
       /\ since_measurement' = Later(since_measurement, dt)
       /\ since_probe' = Later(since_probe, dt)
  /\ benchmark_index' = NextIndex(benchmark_index)
  /\ pc' = "iter"
  /\ pending' = pending \ {benchmark_index}
  /\ resume_at' = -1
  /\ fresh' = fresh \cup {benchmark_index}
  /\ verified' = verified \ {benchmark_index}
  /\ UNCHANGED <<first_benchmark_to_run, max_clock_speed, current_clock_speed,
                 seconds_to_sleep, baseline_probes, Environment, handed, slept, restarted,
                 baseline_reading, stable,
                 CodecVars, TimerVars, ProbeVars, PoolVars>>

\* the loop of run_benchmarks has ended: sort, keep the best of each configuration
Reduce ==
  /\ pc = "loop"
  /\ ~(first_benchmark_to_run < Size)
  /\ handed' = benchmarks
  /\ benchmarks' = ReduceBenchmarks(benchmarks)
  /\ pc' = "done"
  /\ UNCHANGED <<first_benchmark_to_run, benchmark_index, max_clock_speed,
                 current_clock_speed, seconds_to_sleep, baseline_probes, real_time,
                 Environment, since_measurement, pending, resume_at, slept, restarted,
                 fresh, verified, since_probe, baseline_reading, stable,
                 CodecVars, TimerVars, ProbeVars, PoolVars>>

\* the trial lists Spec schedules: MaxBenchmarks lists, of 0, 1, ... trials, with
\* repeated configurations (every third trial has the second block size)
SchedBenchmark(j) ==
  benchmark_t(<<1, 1, 32>>, IF j % 3 = 0 THEN <<1, 1, 64>> ELSE <<1, 1, 32>>)

SchedBenchmarks == {[j \in 1..n |-> SchedBenchmark(j)] : n \in 0..MaxBenchmarks}

\* the variables of the parts a specification does not exercise
IdleCodec == sizes = <<>> /\ keys = <<>> /\ decoded = <<>>

IdleTimer ==
  cost = 0 /\ min_accurate_time = 0 /\ iters_at_a_time = 0 /\ time_per_iter = 0

IdleProbe == all_gflops = <<>> /\ clock_speed = 0

IdlePool == productsizes = <<>> /\ min_working_set_size = 0 /\ matrix_pool_size = 0

Init ==
  /\ \E list \in SchedBenchmarks :
       InitRun(list, <<0, 0>>, [j \in 0..(Len(list) - 1) |-> KernelGflops], Elapsed)
  /\ IdleCodec /\ IdleTimer /\ IdleProbe /\ IdlePool

Next ==
  \/ Shuffle
  \/ MeasureBaseline
  \/ EnterTryRun
  \/ MeasureClock
  \/ RestartHigher
  \/ EnterBackoff
  \/ PassClockCheck
  \/ Sleep
  \/ GiveUp
  \/ Recover
  \/ Finish
  \/ RunTrial
  \/ Reduce

Spec == Init /\ [][Next]_vars

\* the runs whose end is checked: the same lists, each trial measuring one
\* throughput (what a trial measures decides nothing in the scheduler)
InitFair ==
  /\ \E list \in SchedBenchmarks :
       InitRun(list, <<0, 0>>, [j \in 0..(Len(list) - 1) |-> {1}], Elapsed)
  /\ IdleCodec /\ IdleTimer /\ IdleProbe /\ IdlePool

\* the program is sequential and every call it makes is taken to return (a trial
\* run, a probe, a sleep): it does not stop while it has a step to take
SpecFair == InitFair /\ [][Next]_vars /\ WF_vars(Next)

(***************************************************************************)
(* The reduction alone, on lists of measured trials.                       *)
(***************************************************************************)
RECURSIVE ListsOver(_, _)
ListsOver(S, n) ==
  IF n = 0 THEN {<<>>}
  ELSE LET shorter == ListsOver(S, n - 1)
       IN shorter \cup {Append(s, x) : s \in {t \in shorter : Len(t) = n - 1}, x \in S}

\* measured trials: two problem sizes, two block sizes, three throughputs
MeasuredBenchmarks ==
  {[benchmark_t(p, b) EXCEPT !.gflops = g] :
     p \in {<<1, 1, 32>>, <<2, 1, 1>>}, b \in {<<1, 1, 32>>, <<1, 1, 64>>}, g \in {1, 2, 3}}

\* run_benchmarks at the end of its while loop, with any list of measured trials
InitReduce ==
  /\ pc = "loop"
  /\ benchmarks \in ListsOver(MeasuredBenchmarks, MaxReduced)
  /\ first_benchmark_to_run = Len(benchmarks)
  /\ benchmark_index = Len(benchmarks)
  /\ max_clock_speed = 0
  /\ current_clock_speed = 0
  /\ seconds_to_sleep = 0
  /\ baseline_probes = BaselineRuns
  /\ real_time = 0
  /\ since_measurement = 0
  /\ size_range = <<0, 0>>
  /\ kernel_gflops = <<>>
  /\ trial_seconds = {}
  /\ handed = <<>>
  /\ pending = {}
  /\ resume_at = -1
  /\ slept = 0
  /\ restarted = FALSE
  /\ fresh = {}
  /\ verified = {}
  /\ since_probe = 0
  /\ baseline_reading = 0
  /\ stable = TRUE
  /\ IdleCodec /\ IdleTimer /\ IdleProbe /\ IdlePool

NextReduce == Reduce

SpecReduce == InitReduce /\ [][NextReduce]_vars

(***************************************************************************)
(* The codec alone, on two size triples.                                   *)
(***************************************************************************)
IdleSched ==
  /\ benchmarks = <<>>
  /\ first_benchmark_to_run = 0
  /\ benchmark_index = 0
  /\ max_clock_speed = 0
  /\ current_clock_speed = 0
  /\ seconds_to_sleep = 0
  /\ baseline_probes = 0
  /\ real_time = 0
  /\ since_measurement = 0
  /\ size_range = <<0, 0>>
  /\ kernel_gflops = <<>>
  /\ trial_seconds = {}
  /\ handed = <<>>
  /\ pending = {}
  /\ resume_at = -1
  /\ slept = 0
  /\ restarted = FALSE
  /\ fresh = {}
  /\ verified = {}
  /\ since_probe = 0
  /\ baseline_reading = 0
  /\ stable = TRUE

\* every triple of powers of two from 1 to 2^15
ValidTriples ==
  {<<Pow2(a), Pow2(b), Pow2(c)>> : a \in 0..MaxLog2, b \in 0..MaxLog2, c \in 0..MaxLog2}

\* the triples the first one is compared with
OtherTriples ==
  {<<Pow2(a), Pow2(b), Pow2(c)>> : a \in {0, 8, MaxLog2}, b \in {0, 8, MaxLog2},
                                   c \in {0, 8, MaxLog2}}

InitCodec ==
  /\ pc = "encode"
  /\ sizes \in ValidTriples \X OtherTriples
  /\ keys = <<>>
  /\ decoded = <<>>
  /\ IdleSched /\ IdleTimer /\ IdleProbe /\ IdlePool

\* compact_size_triple(const size_triple_t& t), for both triples
Encode ==
  /\ pc = "encode"
  /\ keys' = <<compact_size_triple(sizes[1][1], sizes[1][2], sizes[1][3]),
               compact_size_triple(sizes[2][1], sizes[2][2], sizes[2][3])>>
  /\ pc' = "decode"
  /\ UNCHANGED <<benchmarks, first_benchmark_to_run, benchmark_index, max_clock_speed,
                 current_clock_speed, seconds_to_sleep, baseline_probes, real_time,
                 since_measurement, Environment, History, sizes, decoded, TimerVars,
                 ProbeVars, PoolVars>>

\* size_triple_t(uint16_t compact), for both keys
Decode ==
  /\ pc = "decode"
  /\ decoded' = <<size_triple_t(keys[1]), size_triple_t(keys[2])>>
  /\ pc' = "decoded"
  /\ UNCHANGED <<benchmarks, first_benchmark_to_run, benchmark_index, max_clock_speed,
                 current_clock_speed, seconds_to_sleep, baseline_probes, real_time,
                 since_measurement, Environment, History, sizes, keys, TimerVars,
                 ProbeVars, PoolVars>>

NextCodec == Encode \/ Decode

SpecCodec == InitCodec /\ [][NextCodec]_vars

(***************************************************************************)
(* measure_default_sizes_action_t::run: generate the trials, run them.     *)
(***************************************************************************)
SizeBelow(size, largest) == size < largest

\* ksize <= maxsize, msize <= maxsize, nsize <= maxsize
SizeInRange(size, largest) == size <= largest

\* for (size_t nsize = minsize; nsize <= maxsize; nsize *= 2) emplace_back(k, m, n)
RECURSIVE NLoop(_, _, _, _, _)
NLoop(list, ksize, msize, nsize, range) ==
  IF SizeInRange(nsize, range[2])
    THEN NLoop(Append(list, benchmark_default_t(<<ksize, msize, nsize>>)),
               ksize, msize, nsize * 2, range)
    ELSE list

RECURSIVE MLoop(_, _, _, _)
MLoop(list, ksize, msize, range) ==
  IF SizeInRange(msize, range[2])
    THEN MLoop(NLoop(list, ksize, msize, range[1], range), ksize, msize * 2, range)
    ELSE list

RECURSIVE KLoop(_, _, _)
KLoop(list, ksize, range) ==
  IF SizeInRange(ksize, range[2])
    THEN KLoop(MLoop(list, ksize, range[1], range), ksize * 2, range)
    ELSE list

RECURSIVE RepetitionLoop(_, _, _)
RepetitionLoop(list, repetition, range) ==
  IF repetition < measurement_repetitions
    THEN RepetitionLoop(KLoop(list, range[1], range), repetition + 1, range)
    ELSE list

DefaultSizes(range) == RepetitionLoop(<<>>, 0, range)

\* <<minsize, maxsize>> of the builds modelled: powers of two, maxsize > minsize
SizeRanges == {<<16, 32>>, <<1024, 2048>>}

\* every trial's kernel has one speed, and no trial takes long
InitDefault ==
  /\ pc = "generate"
  /\ benchmarks = <<>>
  /\ \E range \in SizeRanges :
       RunStart(range,
                [j \in 0..(Len(DefaultSizes(range)) - 1) |-> {1 + (j % 2)}], {0})
  /\ IdleCodec /\ IdleTimer /\ IdleProbe /\ IdlePool

\* the four nested loops, up to the call of run_benchmarks
GenerateDefaultSizes ==
  /\ pc = "generate"
  /\ benchmarks' = DefaultSizes(size_range)
  /\ pc' = "shuffle"
  /\ UNCHANGED <<first_benchmark_to_run, benchmark_index, max_clock_speed,
                 current_clock_speed, seconds_to_sleep, baseline_probes, real_time,
                 since_measurement, Environment, History, CodecVars, TimerVars,
                 ProbeVars, PoolVars>>

NextDefault == GenerateDefaultSizes \/ Next

SpecDefault == InitDefault /\ [][NextDefault]_vars

(***************************************************************************)
(* benchmark_t::run's main benchmark loop, for a kernel of fixed cost.     *)
(***************************************************************************)
\* (cost of one product, min_accurate_time): costs of 1 ms and more against the two
\* thresholds the program sets, and a threshold more than 2^30 times the cost
TimerInputs ==
  ((1..MaxCost) \X {g_min_accurate_time, clock_min_accurate_time})
    \cup {<<1, Pow2(30) + 1>>}

InitTimer ==
  /\ pc = "batch"
  /\ \E input \in TimerInputs : cost = input[1] /\ min_accurate_time = input[2]
  /\ iters_at_a_time = 1
  /\ time_per_iter = 0
  /\ IdleSched /\ IdleCodec /\ IdleProbe /\ IdlePool

AccurateStrictly(timing, threshold) == timing > threshold

\* timing >= min_accurate_time
Accurate(timing, threshold) == timing >= threshold

\* iters_at_a_time * 2 in 32-bit two's complement, for a product out of int's range
Wrapped(iters) ==
  IF iters > 0 THEN ((iters - Pow2(30)) - Pow2(30)) * 2
  ELSE ((iters + Pow2(30)) + Pow2(30)) * 2

\* iters_at_a_time * 2 is out of int's range: undefined behaviour
Overflows(iters) == iters >= Pow2(30) \/ iters < -Pow2(30)

\* one round of while (true): time iters_at_a_time products (none if that is not
\* positive), then accept the timing or double iters_at_a_time; doubling past the
\* range of int either wraps or traps
TimeBatch ==
  /\ pc = "batch"
  /\ LET timing == IF iters_at_a_time > 0 THEN iters_at_a_time * cost ELSE 0
     IN IF Accurate(timing, min_accurate_time)
          THEN /\ time_per_iter' = timing \div iters_at_a_time
               /\ pc' = "accepted"
               /\ UNCHANGED iters_at_a_time
          ELSE /\ UNCHANGED time_per_iter
               /\ IF Overflows(iters_at_a_time)
                    THEN \E trap \in BOOLEAN :
                           /\ pc' = IF trap THEN "trapped" ELSE "batch"
                           /\ iters_at_a_time' =
                                IF trap THEN iters_at_a_time ELSE Wrapped(iters_at_a_time)
                    ELSE pc' = "batch" /\ iters_at_a_time' = iters_at_a_time * 2
  /\ UNCHANGED <<benchmarks, first_benchmark_to_run, benchmark_index, max_clock_speed,
                 current_clock_speed, seconds_to_sleep, baseline_probes, real_time,
                 since_measurement, Environment, History, CodecVars, cost,
                 min_accurate_time, ProbeVars, PoolVars>>

NextTimer == TimeBatch

SpecTimer == InitTimer /\ [][NextTimer]_vars

(***************************************************************************)
(* measure_clock_speed alone.                                              *)
(***************************************************************************)
\* throughputs one run of the reference trial may measure
ProbeGflops == {1, 2, 5}

InitProbe ==
  /\ pc = "measure"
  /\ all_gflops = <<>>
  /\ clock_speed = 0
  /\ IdleSched /\ IdleCodec /\ IdleTimer /\ IdlePool

\* one round of for (int i = 0; i < 8; i++): b.run(); all_gflops.push_back(b.gflops)
MeasureOnce ==
  /\ pc = "measure"
  /\ Len(all_gflops) < ClockRuns
  /\ \E g \in ProbeGflops : all_gflops' = Append(all_gflops, g)
  /\ UNCHANGED <<pc, benchmarks, first_benchmark_to_run, benchmark_index, max_clock_speed,
                 current_clock_speed, seconds_to_sleep, baseline_probes, real_time,
                 since_measurement, Environment, History, CodecVars, TimerVars,
                 clock_speed, PoolVars>>

\* after the loop: sort, add up, scale, return
ReturnEstimate ==
  /\ pc = "measure"
  /\ ~(Len(all_gflops) < ClockRuns)
  /\ clock_speed' = measure_clock_speed(all_gflops)
  /\ pc' = "measured"
  /\ UNCHANGED <<benchmarks, first_benchmark_to_run, benchmark_index, max_clock_speed,
                 current_clock_speed, seconds_to_sleep, baseline_probes, real_time,
                 since_measurement, Environment, History, CodecVars, TimerVars,
                 all_gflops, PoolVars>>

NextProbe == MeasureOnce \/ ReturnEstimate

SpecProbe == InitProbe /\ [][NextProbe]_vars

(***************************************************************************)
(* benchmark_t::run's matrix pool.                                         *)
(***************************************************************************)
\* sizeof(Scalar), Scalar being float
SizeofScalar == 4

\* const size_t unlikely_large_cache_size = 64 << 20
unlikely_large_cache_size == ShiftLeft(64, 20)

\* sizeof(Scalar) * (k * m + k * n + m * n)
combined_three_matrices_sizes(p) ==
  SizeofScalar * (p[1] * p[2] + p[1] * p[3] + p[2] * p[3])

\* min_working_set_size ? min_working_set_size : unlikely_large_cache_size
working_set_size(override) ==
  IF override # 0 THEN override ELSE unlikely_large_cache_size

PoolSizeRoundedDown(p, override) ==
  working_set_size(override) \div combined_three_matrices_sizes(p)

\* 1 + working_set_size / combined_three_matrices_sizes
PoolSize(p, override) ==
  1 + working_set_size(override) \div combined_three_matrices_sizes(p)

\* problem sizes: 1, the program's minsize and maxsize, and the 128 of the clock probe
PoolProblemSizes == {1, 16, 128, 2048}

\* min_working_set_size: unset, the 1 of the clock probe, and values of
\* --min-working-set-size below, at and above 64 MiB
PoolOverrides == {0, 1, ShiftLeft(3, 20), ShiftLeft(64, 20), ShiftLeft(128, 20)}

InitPool ==
  /\ pc = "pool"
  /\ productsizes \in PoolProblemSizes \X PoolProblemSizes \X PoolProblemSizes
  /\ min_working_set_size \in PoolOverrides
  /\ matrix_pool_size = 0
  /\ IdleSched /\ IdleCodec /\ IdleTimer /\ IdleProbe

\* "set up the matrix pool", up to the allocation
SetUpPool ==
  /\ pc = "pool"
  /\ matrix_pool_size' = PoolSize(productsizes, min_working_set_size)
  /\ pc' = "pooled"
  /\ UNCHANGED <<benchmarks, first_benchmark_to_run, benchmark_index, max_clock_speed,
                 current_clock_speed, seconds_to_sleep, baseline_probes, real_time,
                 since_measurement, Environment, History, CodecVars, TimerVars,
                 ProbeVars, productsizes, min_working_set_size>>

NextPool == SetUpPool

SpecPool == InitPool /\ [][NextPool]_vars

(***************************************************************************)
(* Properties of the scheduler.                                            *)
(***************************************************************************)
\* the loop of run_benchmarks has ended and the list goes to the reduction
HandedOver == pc = "loop" /\ ~(first_benchmark_to_run < Size)

\* this step runs a trial (the one at benchmark_index)
TrialRuns == benchmark_index' = benchmark_index + 1

\* the configurations (problem-size key, block-size key) of a list
Configurations(list) ==
  {<<list[j].compact_product_size, list[j].compact_block_size>> : j \in 1..Len(list)}

\* C1: a clock check reading more than 1.01 * max_clock_speed makes that reading
\* the new max_clock_speed and resets first_benchmark_to_run to 0; the list is
\* handed to the reduction only once every trial has been run again since the last
\* such restart, and the reduced list has one entry per configuration of the list.
C1_RestartStep ==
  (pc = "calibrate" /\ ClockIsHigher(current_clock_speed, max_clock_speed))
    => /\ max_clock_speed' = current_clock_speed
       /\ first_benchmark_to_run' = 0
       /\ pc' = "loop"
       /\ pending' = Indices

C1_Completion ==
  /\ HandedOver => pending = {}
  /\ pc = "done" =>
       /\ Len(benchmarks) = Cardinality(Configurations(handed))
       /\ Configurations(benchmarks) = Configurations(handed)

\* C1: every step is a C1_RestartStep (the restart resets the checkpoint to 0 and
\* marks every trial to be run again) and every state satisfies C1_Completion.
C1_RestartRunsAllAgain == [][C1_RestartStep]_vars /\ []C1_Completion

C1_Witness ==
  /\ pc = "done"
  /\ restarted
  /\ Len(handed) = MaxBenchmarks
  /\ Len(benchmarks) = 2

\* C2: while the clock speed read in a backoff episode is below 0.98 *
\* max_clock_speed, the next step is the fatal exit exactly if the sleeps of the
\* episode add up to more than 300 s; the fatal exit is never taken at 300 s or less.
C2_BackoffStep ==
  (pc = "backoff" /\ ClockIsLower(current_clock_speed, max_clock_speed))
    => (pc' = "fatal" <=> slept > GiveUpSeconds)

\* C2: every step is a C2_BackoffStep, and the fatal exit is only ever reached
\* with more than 300 s slept.
C2_BackoffBound ==
  [][C2_BackoffStep]_vars /\ [](pc = "fatal" => slept > GiveUpSeconds)

C2_Witness == pc = "fatal" /\ slept > GiveUpSeconds /\ seconds_to_sleep = 512

\* C3 as stated: after a downward-drift recovery with checkpoint c, the next trial
\* run is trial c.
C3_NextTrialIsCheckpoint ==
  [][(TrialRuns /\ resume_at # -1) => benchmark_index = resume_at]_vars

\* C3, amended: the recovery leaves the checkpoint and every throughput as they
\* are; the next trial run is the one at the checkpoint c of the recovery, or trial 0
\* when a clock check read a higher clock speed in between; no trial below the
\* checkpoint is ever run; and the list is handed to the reduction only once every
\* trial of checkpoint..index-1 has been run again.
C3_RecoverStep ==
  (pc = "backoff" /\ pc' = "loop")
    => /\ first_benchmark_to_run' = first_benchmark_to_run
       /\ benchmarks' = benchmarks
       /\ resume_at' = first_benchmark_to_run
       /\ (first_benchmark_to_run..(benchmark_index - 1)) \subseteq pending'

C3_ResumeStep ==
  TrialRuns
    => /\ benchmark_index >= first_benchmark_to_run
       /\ resume_at # -1 =>
            \/ benchmark_index = resume_at
            \/ benchmark_index = 0 /\ pending = Indices

\* C3, amended: every step is a C3_RecoverStep and a C3_ResumeStep, the list is
\* handed over with nothing left to redo, and after a recovery the loop is entered
\* at the checkpoint (or at 0 after a restart).
C3_ResumeFromCheckpoint ==
  /\ [][C3_RecoverStep /\ C3_ResumeStep]_vars
  /\ [](HandedOver => pending = {})
  /\ [](pc = "iter" /\ resume_at # -1 =>
          benchmark_index = first_benchmark_to_run
            /\ first_benchmark_to_run \in {resume_at, 0})

\* a recovery with trials before the checkpoint and trials to redo has happened,
\* and the scheduler is about to run the trial at the checkpoint
C3_Witness ==
  /\ pc = "run"
  /\ resume_at > 0
  /\ benchmark_index = resume_at
  /\ pending # {}
  /\ ~restarted

\* C4: the list is handed to the reduction only with every trial measured: no
\* throughput is still 0, before or after the reduction.
C4_NoPartialResults ==
  /\ HandedOver => \A j \in 1..Size : benchmarks[j].gflops \in KernelGflops
  /\ pc = "done" =>
       /\ \A j \in 1..Len(handed) : handed[j].gflops \in KernelGflops
       /\ \A j \in 1..Size : benchmarks[j].gflops \in KernelGflops

C4_Witness ==
  /\ pc = "done"
  /\ Len(handed) = MaxBenchmarks
  /\ \E j \in 1..Len(handed) : handed[j].gflops # handed[1].gflops

(***************************************************************************)
(* Properties of the reduction and of the codec.                           *)
(***************************************************************************)
Configuration(b) == <<b.compact_product_size, b.compact_block_size>>

Range(list) == {list[j] : j \in 1..Len(list)}

\* C5: the reduced list holds, for each configuration of the list handed over,
\* exactly one of its trials, one of maximal throughput among the trials of that
\* configuration, and is ordered by ascending problem-size key, then block-size key.
C5_KeepsBestPerConfiguration ==
  pc = "done" =>
    /\ Len(benchmarks) = Cardinality(Configurations(handed))
    /\ \A c \in Configurations(handed) :
         \E j \in 1..Len(benchmarks) :
           /\ Configuration(benchmarks[j]) = c
           /\ benchmarks[j] \in Range(handed)
           /\ \A b \in Range(handed) :
                Configuration(b) = c => b.gflops <= benchmarks[j].gflops
    /\ \A j \in 1..(Len(benchmarks) - 1) :
         \/ benchmarks[j].compact_product_size < benchmarks[j + 1].compact_product_size
         \/ /\ benchmarks[j].compact_product_size = benchmarks[j + 1].compact_product_size
            /\ benchmarks[j].compact_block_size < benchmarks[j + 1].compact_block_size

Trial(p, b, g) ==
  [compact_product_size |-> p, compact_block_size |-> b,
   use_default_block_size |-> FALSE, gflops |-> g]

\* the scenario [(5,5,1.0), (5,5,3.0), (5,6,2.0)] -> [(5,5,3.0), (5,6,2.0)]
C5_Witness ==
  /\ pc = "done"
  /\ handed = <<Trial(5, 5, 1), Trial(5, 5, 3), Trial(5, 6, 2)>>
  /\ benchmarks = <<Trial(5, 5, 3), Trial(5, 6, 2)>>

\* the exponent of a power of two, found by search
Log2Of(x) == CHOOSE e \in 0..MaxLog2 : Pow2(e) = x

Logs(t) == <<Log2Of(t[1]), Log2Of(t[2]), Log2Of(t[3])>>

LexLess(l1, l2) ==
  \/ l1[1] < l2[1]
  \/ l1[1] = l2[1] /\ l1[2] < l2[2]
  \/ l1[1] = l2[1] /\ l1[2] = l2[2] /\ l1[3] < l2[3]

\* C6: decoding the key of a triple of powers of two from 1 to 2^15 gives the triple
\* back; the key is below 2^12 and is 256 * log2 k + 16 * log2 m + log2 n, three
\* 4-bit fields that do not overlap.
C6_RoundTrip ==
  /\ pc \in {"decode", "decoded"} =>
       \A i \in 1..2 :
         /\ keys[i] < 4096
         /\ keys[i] = 256 * Logs(sizes[i])[1] + 16 * Logs(sizes[i])[2] + Logs(sizes[i])[3]
         /\ \A f \in 1..3 : Logs(sizes[i])[f] < 16
  /\ pc = "decoded" => decoded = sizes

C6_Witness ==
  /\ pc = "decoded"
  /\ sizes[1] = <<32768, 1, 2048>>
  /\ keys[1] = 3851
  /\ decoded[1] = <<32768, 1, 2048>>

\* C7: two keys compare as integers the way their triples of exponents compare
\* lexicographically.
C7_KeyOrder ==
  pc \in {"decode", "decoded"} =>
    /\ keys[1] < keys[2] <=> LexLess(Logs(sizes[1]), Logs(sizes[2]))
    /\ keys[1] = keys[2] <=> Logs(sizes[1]) = Logs(sizes[2])
    /\ keys[1] > keys[2] <=> LexLess(Logs(sizes[2]), Logs(sizes[1]))

C7_Witness ==
  /\ pc = "decode"
  /\ sizes = <<<<256, 1, 32768>>, <<256, 256, 1>>>>
  /\ keys[1] < keys[2]

(***************************************************************************)
(* Properties of the timer and of the clock probe.                         *)
(***************************************************************************)
\* C8 as stated, with N/2 half of N: N * C >= T and (N/2) * C < T.
C8_TightDoubling ==
  pc = "accepted" =>
    /\ iters_at_a_time * cost >= min_accurate_time
    /\ iters_at_a_time * cost < 2 * min_accurate_time

\* C8, amended: the accepted iteration count N is a power of two with N * C >= T
\* and, unless N is 1, (N/2) * C < T; the time per iteration is C.
C8_MinimalDoubling ==
  pc = "accepted" =>
    /\ iters_at_a_time * cost >= min_accurate_time
    /\ \/ iters_at_a_time = 1
       \/ /\ iters_at_a_time % 2 = 0
          /\ (iters_at_a_time \div 2) * cost < min_accurate_time
    /\ \E e \in 0..30 : iters_at_a_time = Pow2(e)
    /\ time_per_iter = cost

C8_Witness ==
  /\ pc = "accepted"
  /\ cost = 3
  /\ min_accurate_time = g_min_accurate_time
  /\ iters_at_a_time = 4

\* the r-th smallest of the values of a sequence, by counting
Ranked(s, r) ==
  CHOOSE v \in Range(s) :
    /\ Cardinality({i \in 1..Len(s) : s[i] < v}) < r
    /\ Cardinality({i \in 1..Len(s) : s[i] <= v}) >= r

\* C10: measure_clock_speed takes 8 measurements and returns 123.456 times the sum
\* of those of ranks 3 to 6, whatever the order they were taken in and whatever
\* the two lowest and the two highest are.
C10_TrimmedSum ==
  pc = "measured" =>
    /\ Len(all_gflops) = 8
    /\ clock_speed =
         ClockScale * (Ranked(all_gflops, 3) + Ranked(all_gflops, 4)
                         + Ranked(all_gflops, 5) + Ranked(all_gflops, 6))

C10_Witness ==
  /\ pc = "measured"
  /\ all_gflops = <<5, 2, 1, 2, 5, 1, 2, 5>>
  /\ clock_speed = ClockScale * 11

(***************************************************************************)
(* Properties of the default-sizes mode.                                   *)
(***************************************************************************)
\* the powers of two in [minsize, maxsize]
PowersInRange == {Pow2(e) : e \in {l \in 0..MaxLog2 : size_range[1] <= Pow2(l)
                                                       /\ Pow2(l) <= size_range[2]}}

Cube(l) == l * l * l

\* the trials of a list on problem (k, m, n)
TrialsOn(list, triple) ==
  {j \in 1..Len(list) : size_triple_t(list[j].compact_product_size) = triple}

\* C9: with L powers of two in [minsize, maxsize], the generated list has
\* measurement_repetitions * L^3 trials, each problem triple exactly
\* measurement_repetitions times, all with default blocking; a completed run hands
\* that many trials to the reduction and leaves L^3 results; for 16..32 that is 24
\* trials and 8 results.
C9_DefaultSizesCounts ==
  LET L == Cardinality(PowersInRange)
  IN /\ pc = "shuffle" =>
          /\ Len(benchmarks) = measurement_repetitions * Cube(L)
          /\ \A j \in 1..Len(benchmarks) :
               /\ benchmarks[j].use_default_block_size
               /\ size_triple_t(benchmarks[j].compact_product_size)
                    \in PowersInRange \X PowersInRange \X PowersInRange
          /\ \A triple \in PowersInRange \X PowersInRange \X PowersInRange :
               Cardinality(TrialsOn(benchmarks, triple)) = measurement_repetitions
          /\ size_range = <<16, 32>> => Len(benchmarks) = 24
     /\ pc = "done" =>
          /\ Len(handed) = measurement_repetitions * Cube(L)
          /\ Len(benchmarks) = Cube(L)
          /\ \A triple \in PowersInRange \X PowersInRange \X PowersInRange :
               Cardinality(TrialsOn(benchmarks, triple)) = 1
          /\ size_range = <<16, 32>> => Len(handed) = 24 /\ Len(benchmarks) = 8

C9_Witness ==
  /\ pc = "done"
  /\ size_range = <<16, 32>>
  /\ Len(handed) = 24
  /\ Len(benchmarks) = 8
  /\ restarted

(***************************************************************************)
(* Properties of the scheduler: calibrations, checkpoint, order.           *)
(***************************************************************************)
\* the clock speed just read is neither above nor below the tolerances
WithinTolerance ==
  /\ ~ClockIsHigher(current_clock_speed, max_clock_speed)
  /\ ~ClockIsLower(current_clock_speed, max_clock_speed)

\* the checkpoint reaches the list length only by the step of a clock check made
\* at benchmark_index = size whose first reading is within the tolerances
C11_CompletionStep ==
  (first_benchmark_to_run < Size /\ first_benchmark_to_run' = Size)
    => /\ pc = "calibrate"
       /\ benchmark_index = Size
       /\ WithinTolerance

\* a final clock check out of tolerance: a higher reading resets the checkpoint to
\* 0 and returns to the loop of run_benchmarks; a lower one enters the backoff,
\* which leaves the checkpoint alone and returns to the loop only to run again from it
C11_OutOfToleranceStep ==
  /\ (pc = "calibrate" /\ benchmark_index = Size
        /\ ClockIsHigher(current_clock_speed, max_clock_speed))
       => (first_benchmark_to_run' = 0 /\ pc' = "loop" /\ pending' = Indices)
  /\ (pc = "calibrate" /\ benchmark_index = Size
        /\ ~ClockIsHigher(current_clock_speed, max_clock_speed)
        /\ ClockIsLower(current_clock_speed, max_clock_speed))
       => (first_benchmark_to_run' = first_benchmark_to_run /\ pc' = "backoff")
  /\ pc = "backoff"
       => /\ first_benchmark_to_run' = first_benchmark_to_run
          /\ pc' \in {"backoff", "fatal", "loop"}
          /\ pc' = "loop" => resume_at' = first_benchmark_to_run

\* C11: for a list with trials, the loop of run_benchmarks ends (checkpoint = list
\* length) only after a clock check made with benchmark_index = list length read a
\* value within the tolerances; a final check out of tolerance does not finish: it
\* restarts from 0 (higher) or, after the backoff, runs again from the checkpoint.
C11_FinalCalibration ==
  /\ [][C11_CompletionStep /\ C11_OutOfToleranceStep]_vars
  /\ [](pc \in {"calibrate", "backoff", "fatal"} => first_benchmark_to_run < Size)
  /\ [](HandedOver /\ Size > 0 => benchmark_index = Size /\ pc # "fatal")

\* a run of the longest list that was restarted by a higher reading and has now
\* ended its loop, after a final clock check within the tolerances
C11_Witness ==
  /\ pc = "loop"
  /\ first_benchmark_to_run = Size
  /\ Size = MaxBenchmarks
  /\ restarted
  /\ benchmark_index = Size
\* the states of the scheduling loop (the list is neither being shuffled nor reduced)
Scheduling == pc \in {"loop", "iter", "calibrate", "backoff", "run", "fatal"}

\* C12: in every state of the scheduling loop, every trial below the checkpoint has
\* been run (its throughput is set), and the first clock-check reading after its
\* latest run was within the tolerances: no higher or lower reading came between
\* that run and the check that moved the checkpoint past it.
C12_CheckpointMeaning ==
  Scheduling =>
    \A j \in 0..(first_benchmark_to_run - 1) :
      /\ j \in verified
      /\ j \notin pending
      /\ benchmarks[j + 1].gflops \in KernelGflops

\* trials 0 and 1 are below the checkpoint although an earlier run of theirs was
\* made void by a restart, and a trial above it waits to be run again
C12_Witness ==
  /\ pc = "run"
  /\ first_benchmark_to_run = 2
  /\ restarted
  /\ pending # {}
  /\ verified = {0, 1}
\* C13 as stated: run() never writes the throughput of a trial that has one.
C13_WrittenOnce ==
  [][TrialRuns => benchmarks[benchmark_index + 1].gflops = 0]_vars

\* a step that runs a trial writes the throughput of the trial at benchmark_index
\* and nothing else, and writes over a throughput only if a restart or a recovery
\* made the earlier run of that trial void
C13_TrialStep ==
  TrialRuns
    => /\ \/ benchmarks[benchmark_index + 1].gflops = 0
          \/ benchmark_index \in pending
       /\ \E g \in kernel_gflops[benchmark_index] :
            benchmarks' = [benchmarks EXCEPT ![benchmark_index + 1].gflops = g]

\* no other step of the scheduling loop writes to the list
C13_OtherStep ==
  (Scheduling /\ pc' # "done" /\ ~TrialRuns) => benchmarks' = benchmarks

\* C13, amended: every trial starts with throughput 0 and only run() writes
\* throughputs, that of the trial at benchmark_index; a trial is written exactly
\* once unless a restart from 0 or a recovery makes its run void, in which case run()
\* writes it again; the list handed to the reduction holds a throughput for every
\* trial and no run is void.
C13_WrittenOncePerValidRun ==
  /\ [][C13_TrialStep /\ C13_OtherStep]_vars
  /\ [](pc \in {"shuffle", "baseline"} =>
          \A j \in 1..Size : benchmarks[j].gflops = 0)
  /\ [](~restarted /\ pending = {} /\ Scheduling =>
          \A j \in Indices : benchmarks[j + 1].gflops # 0 => j < benchmark_index)
  /\ [](HandedOver =>
          pending = {} /\ \A j \in 1..Size : benchmarks[j].gflops # 0)

\* two trials were run, a higher reading restarted the run, and trial 0 has been
\* run a second time; trial 1 still holds the throughput of its void run
C13_Witness ==
  /\ pc = "iter"
  /\ Size = 2
  /\ benchmark_index = 1
  /\ restarted
  /\ pending = {1}
  /\ benchmarks[1].gflops # 0
  /\ benchmarks[2].gflops # 0
\* C14 as stated: at the top of an iteration with at least 60 s elapsed since the
\* last call of the Clock Probe, or with the index at the list length, the next
\* thing done is a call of the Clock Probe.
C14_ProbeAtSixty ==
  [][(pc = "iter" /\ (since_probe >= ClockCheckPeriod \/ benchmark_index = Size))
       => pc' = "calibrate"]_vars

\* at the top of an iteration with more than 60 s elapsed, or at the end of the
\* list, the step taken is the clock check, and it touches no trial
C14_ProbeStep ==
  (pc = "iter" /\ (since_probe > ClockCheckPeriod \/ benchmark_index = Size))
    => /\ pc' = "calibrate"
       /\ since_probe' = 0
       /\ benchmarks' = benchmarks
       /\ benchmark_index' = benchmark_index

\* a trial is run either right after a clock check that passed, or at an
\* iteration where neither condition holds
C14_TrialStep ==
  TrialRuns
    => \/ pc = "run" /\ since_probe = 0
       \/ /\ pc = "iter"
          /\ ~(since_probe > ClockCheckPeriod)
          /\ benchmark_index # Size

\* C14, amended: at every iteration of the scheduling loop the Clock Probe is
\* invoked before anything else whenever more than 60 s have elapsed since the last
\* calibration or the index has reached the list length, and no trial is run at
\* such an iteration without the probe having been invoked first; the time the
\* code compares with 60 s is never less than the time since the last calibration.
C14_ProbeAfterSixty ==
  /\ [][C14_ProbeStep /\ C14_TrialStep]_vars
  /\ [](pc = "iter" => since_probe <= since_measurement)

\* a clock check made before the end of the list, with trials run since the last
\* one: more than 60 s had elapsed
C14_Witness ==
  /\ pc = "calibrate"
  /\ benchmark_index < Size
  /\ fresh # {}
  /\ since_probe = 0
\* what identifies the trial at each position of a list
TrialsInOrder(list) ==
  [j \in 1..Len(list) |->
     <<list[j].compact_product_size, list[j].compact_block_size,
       list[j].use_default_block_size>>]

\* a step that changes the index either runs the trial at the index and advances
\* by one, or is the entry of try_run_some_benchmarks rewinding to the checkpoint:
\* that of the last recovery, or 0
C15_IndexStep ==
  /\ benchmark_index' > benchmark_index
       => /\ benchmark_index' = benchmark_index + 1
          /\ \E g \in kernel_gflops[benchmark_index] :
               benchmarks' = [benchmarks EXCEPT ![benchmark_index + 1].gflops = g]
  /\ benchmark_index' < benchmark_index
       => /\ pc = "loop" /\ pc' = "iter"
          /\ benchmark_index' = first_benchmark_to_run
          /\ benchmark_index' = 0 \/ benchmark_index' = resume_at
  /\ benchmarks' # benchmarks /\ Scheduling /\ pc' # "done"
       => benchmark_index' = benchmark_index + 1

\* C15: once shuffled, the list keeps its order until it is handed to the
\* reduction; the trials are run in increasing index order, the index advancing by
\* exactly one per trial run; the only other change of the index is a rewind to the
\* checkpoint (after a recovery) or to 0 (after a higher reading); the index never
\* jumps forward over a trial.
C15_ExecutionOrder ==
  /\ [][C15_IndexStep]_vars
  /\ [][(Scheduling /\ pc' # "done")
          => TrialsInOrder(benchmarks') = TrialsInOrder(benchmarks)]_vars

\* after a recovery rewound the index from 3 to the checkpoint 1, trial 1 has been
\* run again and trial 2 is next
C15_Witness ==
  /\ pc = "iter"
  /\ Size = 3
  /\ first_benchmark_to_run = 1
  /\ benchmark_index = 2
  /\ pending = {2}
  /\ ~restarted
\* a sleep of a backoff episode: the k-th one lasts 2^(k-1) s, real time advances
\* by it, and the clock speed is read again right after it
C16_SleepStep ==
  (pc = "backoff" /\ pc' = "backoff")
    => /\ \E k \in 1..9 :
            /\ slept = Pow2(k - 1) - 1
            /\ slept' - slept = Pow2(k - 1)
            /\ real_time' = Later(real_time, Pow2(k - 1))
       /\ since_probe' = 0
       /\ \E sample \in ClockSamples :
            current_clock_speed' = measure_clock_speed(sample)

\* an episode starts at 1 s with nothing slept, whatever came before, and touches
\* neither a trial nor the index
C16_EpisodeStep ==
  /\ (pc = "calibrate" /\ pc' = "backoff") => (seconds_to_sleep' = 1 /\ slept' = 0)
  /\ pc = "backoff" => (benchmarks' = benchmarks /\ benchmark_index' = benchmark_index)

\* C16: within one backoff episode the k-th sleep lasts 2^(k-1) seconds, the clock
\* speed is measured again after every sleep and before the next decision, no
\* trial is run during the episode, and every episode starts at 1 second.
C16_BackoffSchedule ==
  /\ [][C16_SleepStep /\ C16_EpisodeStep]_vars
  /\ [](pc = "backoff" =>
          /\ seconds_to_sleep = slept + 1
          /\ \E k \in 0..9 : seconds_to_sleep = Pow2(k)
          /\ since_probe = 0)

\* three sleeps (1 + 2 + 4 s) into an episode that follows a recovery of an
\* earlier episode
C16_Witness ==
  /\ pc = "backoff"
  /\ slept = 7
  /\ seconds_to_sleep = 8
  /\ pending # {}
  /\ ~restarted

(***************************************************************************)
(* Properties of the matrix pool.                                          *)
(***************************************************************************)
\* bytes of the three matrices of one pool entry, and of the whole pool
ThreeMatrices ==
  4 * (productsizes[1] * productsizes[2] + productsizes[1] * productsizes[3]
         + productsizes[2] * productsizes[3])

Footprint == matrix_pool_size * ThreeMatrices

\* C17 as stated: the pool's footprint is at least the larger of the working-set
\* override and 64 MiB.
C17_FootprintAtLeastMax ==
  pc = "pooled" => Footprint >= Max(min_working_set_size, 64 * 1024 * 1024)

\* C17, amended: the pool's footprint exceeds the working-set override when one
\* is set (not 0) and 64 MiB when none is; the pool is the smallest that does, and
\* has at least one entry.
C17_FootprintAtLeastWorkingSet ==
  pc = "pooled" =>
    LET target == IF min_working_set_size = 0 THEN 64 * 1024 * 1024
                  ELSE min_working_set_size
    IN /\ matrix_pool_size >= 1
       /\ Footprint > target
       /\ Footprint - ThreeMatrices <= target

\* the trial of measure_clock_speed: 128 x 128 x 128 with min_working_set_size = 1
\* gets a pool of one entry, 192 KiB
C17_Witness ==
  /\ pc = "pooled"
  /\ productsizes = <<128, 128, 128>>
  /\ min_working_set_size = 1
  /\ matrix_pool_size = 1
  /\ Footprint = 196608

(***************************************************************************)
(* Properties of the iteration doubling.                                   *)
(***************************************************************************)
\* a batch that is not accepted is followed by a batch of exactly twice as many
\* products
C18_DoublingStep ==
  (pc = "batch" /\ pc' # "accepted")
    => /\ pc' = "batch"
       /\ iters_at_a_time' > 0
       /\ iters_at_a_time' % 2 = 0
       /\ iters_at_a_time' \div 2 = iters_at_a_time

\* C18: as long as the batches time below the threshold, the next batch is timed
\* with twice as many products: after j short batches with exactly 2^j; the count
\* never stops doubling, never stops being a positive power of two, never wraps.
C18_UnboundedDoubling ==
  /\ [][C18_DoublingStep]_vars
  /\ [](pc = "batch" => iters_at_a_time > 0)

\* 31 batches timed below the threshold; iters_at_a_time *= 2 wrapped twice and
\* is 0: no product is timed any more and the loop cannot end
C18_Witness ==
  /\ pc = "batch"
  /\ cost = 1
  /\ iters_at_a_time = 0

(***************************************************************************)
(* Properties of the scheduler: passing clock check, index bounds.         *)
(***************************************************************************)
\* the step of a clock check whose first reading is within the tolerances
C19_PassStep ==
  (pc = "calibrate" /\ WithinTolerance)
    => /\ first_benchmark_to_run' = benchmark_index
       /\ max_clock_speed' = max_clock_speed
       /\ benchmarks' = benchmarks
       /\ benchmark_index' = benchmark_index
       /\ seconds_to_sleep' = seconds_to_sleep
       /\ pc' = "run"

\* the step after it: trial benchmark_index is run, or the loop is left at the end
C19_ContinueStep ==
  pc = "run"
    => IF benchmark_index = Size
         THEN first_benchmark_to_run' = Size /\ pc' = "loop"
                /\ benchmarks' = benchmarks
         ELSE /\ benchmark_index' = benchmark_index + 1
              /\ \E g \in kernel_gflops[benchmark_index] :
                   benchmarks' = [benchmarks EXCEPT ![benchmark_index + 1].gflops = g]
              /\ first_benchmark_to_run' = first_benchmark_to_run

\* C19: a clock check at index i whose first reading is within the tolerances (no
\* sleep) makes the checkpoint exactly i and leaves max_clock_speed and every
\* throughput unchanged; the scheduler then runs trial i, or finishes if i is the
\* list length.
C19_PassOnlyAdvances ==
  /\ [][C19_PassStep /\ C19_ContinueStep]_vars
  /\ [](pc = "run" =>
          /\ first_benchmark_to_run = benchmark_index
          /\ seconds_to_sleep = 0
          /\ slept = 0)

\* a check in the middle of the list has passed: the checkpoint moved up to the
\* index, trial 1 is next
C19_Witness ==
  /\ pc = "run"
  /\ Size = 3
  /\ benchmark_index = 1
  /\ first_benchmark_to_run = 1
  /\ verified = {0}
  /\ ~restarted
\* the checkpoint goes down only in the step of a higher reading, to 0; the
\* backoff leaves it alone
C20_CheckpointStep ==
  /\ first_benchmark_to_run' < first_benchmark_to_run
       => /\ pc = "calibrate"
          /\ ClockIsHigher(current_clock_speed, max_clock_speed)
          /\ first_benchmark_to_run' = 0
  /\ pc = "backoff" => first_benchmark_to_run' = first_benchmark_to_run

\* C20: in every state of the scheduling loop 0 <= checkpoint <= index <= list
\* length (between two calls of try_run_some_benchmarks the index is the one the
\* last call ended with); a trial is only accessed at an index below the list
\* length; the checkpoint decreases only in the step of a higher reading, where it
\* becomes 0, and never in a backoff episode.
C20_IndexInvariant ==
  /\ [][C20_CheckpointStep]_vars
  /\ [](Scheduling =>
          /\ 0 <= first_benchmark_to_run
          /\ first_benchmark_to_run <= benchmark_index
          /\ benchmark_index <= Size)
  /\ [](AfterClockCheck /\ ~AtEnd(benchmark_index) => benchmark_index \in Indices)

\* a higher reading at the end of the list has just reset a checkpoint that had
\* advanced: every trial is to be run again
C20_Witness ==
  /\ pc = "loop"
  /\ Size = 3
  /\ first_benchmark_to_run = 0
  /\ benchmark_index = 3
  /\ pending = Indices
  /\ verified # {}

(***************************************************************************)
(* Properties of the best clock speed seen and of the scheduler's end.     *)
(***************************************************************************)
\* the values measure_clock_speed may return in the scheduler, and the largest
ClockReadings == {measure_clock_speed(sample) : sample \in ClockSamples}

HighestReading == CHOOSE r \in ClockReadings : \A q \in ClockReadings : q <= r

\* one of the 4 initial probes: the best speed becomes the larger of what it was
\* and the reading just made, so after the 4th it is the largest of the 4 readings
C21_BaselineStep ==
  (pc = "baseline")
    => /\ baseline_reading' \in ClockReadings
       /\ max_clock_speed' \in {max_clock_speed, baseline_reading'}
       /\ max_clock_speed' >= max_clock_speed
       /\ max_clock_speed' >= baseline_reading'

\* after the initial probes the best speed changes only in the step of a clock
\* check whose first reading is above the higher tolerance: it becomes that reading,
\* more than 1.01 times what it was, and the checkpoint is 0
C21_ChangeStep ==
  (pc # "baseline" /\ max_clock_speed' # max_clock_speed)
    => /\ pc = "calibrate"
       /\ pc' = "loop"
       /\ max_clock_speed' = current_clock_speed
       /\ ToleranceScale * max_clock_speed' > tolerance_higher_clock_speed * max_clock_speed
       /\ first_benchmark_to_run' = 0

\* a reading within the tolerances, a low reading, a sleep with its new reading
\* (whatever it is) and the return after a backoff leave the best speed alone
C21_KeepStep ==
  (\/ pc = "calibrate" /\ ~ClockIsHigher(current_clock_speed, max_clock_speed)
   \/ pc = "backoff")
    => max_clock_speed' = max_clock_speed

\* a restart from 0: the step of a clock check that read a higher clock speed
C21_Restart == pc = "calibrate" /\ pc' = "loop"

\* C21: the best clock speed seen starts as the largest of the 4 initial readings
\* and never decreases; after them it changes only when a clock check reads more than
\* 1.01 times it, to that reading; passing checks, low readings and the readings
\* made during a backoff (even one above 1.01 times it) leave it unchanged; it never
\* exceeds the highest reading, and from some point on there is no restart from 0
C21_BaselineMonotone ==
  /\ [][C21_BaselineStep /\ C21_ChangeStep /\ C21_KeepStep
          /\ max_clock_speed' >= max_clock_speed]_vars
  /\ [](max_clock_speed <= HighestReading)
  /\ [](pc \notin {"shuffle", "baseline"} => max_clock_speed \in ClockReadings)
  /\ <>[][~C21_Restart]_vars

\* after a restart from 0 a clock check read low and, after one sleep or more, the
\* reading is above 1.01 times the best speed, which is still what the restart set
C21_Witness ==
  /\ pc = "backoff"
  /\ restarted
  /\ rerun_last_tests
  /\ ClockIsHigher(current_clock_speed, max_clock_speed)
  /\ max_clock_speed < HighestReading

\* run_benchmarks has returned
Completed == pc = "done"

\* a trial is run: run() writes the trial at benchmark_index, the index goes up by 1
C22_TrialRun ==
  /\ benchmark_index \in Indices
  /\ benchmark_index' = benchmark_index + 1
  /\ \E g \in kernel_gflops[benchmark_index] :
       benchmarks' = [benchmarks EXCEPT ![benchmark_index + 1].gflops = g]

\* while every reading is within the tolerances: until the final sort the trials
\* are written only by running the trial at the index, which then goes up by 1 and
\* is otherwise left alone (each trial once, in list order); the checkpoint does
\* not go down; time passes only in trials and probes; there is no sleep, no
\* backoff and no fatal exit
C22_StableStep ==
  (Scheduling /\ stable')
    => /\ (benchmark_index' # benchmark_index \/ (benchmarks' # benchmarks /\ pc' # "done"))
            => C22_TrialRun
       /\ first_benchmark_to_run' >= first_benchmark_to_run
       /\ real_time' # real_time => (C22_TrialRun \/ pc = "iter")
       /\ pc' \notin {"backoff", "fatal"}
       /\ seconds_to_sleep' = 0 /\ slept' = 0

\* at the end of a run of nothing but readings within the tolerances, the index
\* has passed every trial, every trial's run was followed by a passing clock
\* check, and none was made void
C22_StableEnd ==
  (Completed /\ stable)
    => /\ benchmark_index = Len(handed)
       /\ first_benchmark_to_run = Len(handed)
       /\ verified = 0..(Len(handed) - 1)
       /\ pending = {}
       /\ ~restarted

\* C22: if every call returns and every reading after the 4 initial ones lies within
\* [0.98, 1.01] times the best clock speed, run_benchmarks eventually returns, having
\* run each trial exactly once in list order, with no sleep, no step back of index or
\* checkpoint and no fatal exit
C22_StableTermination ==
  /\ [][C22_StableStep]_vars
  /\ []C22_StableEnd
  /\ ([]stable => <>Completed)

\* without the assumption on the readings the run need not end at all, by return
\* or by exit: this formula does not hold, a low reading, a sleep, a good reading
\* and the re-run of the trials since the checkpoint can repeat forever
C22_EndsRegardless == <>(pc \in {"done", "fatal"})

\* a list of 3 trials has been run to the end with every reading within the
\* tolerances, and more than 60 s went by on the way
C22_Witness ==
  /\ Completed
  /\ stable
  /\ Len(handed) = 3
  /\ benchmark_index = 3
  /\ real_time > ClockCheckPeriod

====
